---- MODULE Spec2Model ----
(***************************************************************************)
(* Call lifecycle and access-control coordinator of devcollab:             *)
(*   POST   /api/calls        (CreateCall)                                 *)
(*   GET    /api/calls/[id]   (GetCallForJoin)                             *)
(*   PATCH  /api/calls/[id]   (UpdateParticipation: end | leave)           *)
(*   DELETE /api/calls/[id]   (DeleteCall)                                 *)
(* Every request handler is a sequence of awaited store / provider calls.  *)
(* Each awaited call that writes shared state (a table, the provider's     *)
(* rooms) is one atomic step of the request, taken together with the       *)
(* handler code up to the next such call; requests of different slots      *)
(* interleave freely between steps.  A store write or provider call whose  *)
(* error the handler inspects may fail: the outcome is drawn from BOOLEAN  *)
(* at that step.                                                           *)
(***************************************************************************)
EXTENDS Integers, Sequences, FiniteSets, TLC

\* ---------------------------------------------------------------- bounds
\* number of distinct timestamps one column of one row can take in a run
MaxTime == 2
\* longest participantIds array of a CreateCall request body
MaxList == 2
\* chats rows one run inserts
MaxChats == 3
\* debounceMs, in ticks of the browser's clock
DebounceTicks == 2
\* ticks of the browser's clock
MaxClock == 4
\* events one run sends on the typing channel
MaxBroadcasts == 3

\* ------------------------------------------------------------- universes
NULL == "null"
\* SQL NULL of a TIMESTAMPTZ column
NoTime == 0
\* rows of table profiles
Profiles == {"U1", "U2", "U3"}
\* a string that is the id of no profile row
GhostId == "U9"
\* a signed-in user who has no profiles row yet
NewUser == "U4"
\* the handlers
Ops == {"POST", "GET", "PATCH", "DELETE"}
ChatIds == {"chatA"}
EventIds == {"evE"}
RoomNames == {"roomA", "roomB"}
\* request handlers that can run at the same time
Slots == {"r1", "r2"}
\* call ids a request can name; the store generates them in this order
CallIds == {1, 2}

\* table chat_participants (chat_id, user_id); no call handler writes it
chat_participants == {<<"chatA", "U1">>, <<"chatA", "U2">>}
\* table event_participants (event_id, user_id); no call handler writes it
event_participants == {<<"evE", "U2">>, <<"evE", "U3">>}

\* request bodies: participantIds arrays, duplicates and unknown ids included
ParticipantLists == UNION {[1..n -> Profiles \cup {GhostId}] : n \in 0..MaxList}

\* What the environment sends in one specification:
\*   slots    handlers that run concurrently
\*   creators callers of POST;  lists  their participantIds arrays
\*   callers  callers of GET, PATCH and DELETE
\*   links    their <<chatId, calendarEventId>> pairs
\*   names    room names the provider generates
\*   calls    calls rows the store accepts in a run
\*   targets  call ids GET, PATCH and DELETE requests name
\* One handler at a time, every request body and link, one call; id 2 names
\* no call:
SeqScope ==
    [slots |-> {"r1"}, creators |-> {"U1", "U3"}, callers |-> Profiles,
     lists |-> ParticipantLists,
     links |-> (ChatIds \cup {NULL}) \X (EventIds \cup {NULL}),
     names |-> {"roomA"}, calls |-> 1, targets |-> CallIds]
\* Two handlers interleaving on one call that U1 starts alone, linked to a chat
\* and to a calendar event:
RaceScope ==
    [slots |-> Slots, creators |-> {"U1"}, callers |-> {"U1", "U2"},
     lists |-> {<<>>},
     links |-> {<<"chatA", "evE">>},
     names |-> {"roomA"}, calls |-> 1, targets |-> {1}]

\* Every handler, the rejected requests included, on two calls and two room
\* names; users are the signed-in senders of PATCH bodies with a bad action:
EdgeScope ==
    [slots |-> {"r1"}, creators |-> {"U1"}, callers |-> {"U1"},
     lists |-> {<<>>},
     links |-> {<<NULL, "evE">>},
     names |-> RoomNames, calls |-> 2, targets |-> CallIds,
     users |-> {NewUser}]

\* GET /api/calls/rooms among the requests: one slot, a starter, a caller in the
\* linked chat or event and one who depends on the link chosen
RoomsScope ==
    [slots |-> {"r1"}, creators |-> {"U1"}, callers |-> {"U1", "U3"},
     lists |-> {<<>>},
     links |-> {<<"chatA", NULL>>, <<NULL, "evE">>},
     names |-> {"roomA"}, calls |-> 1, targets |-> {1},
     users |-> {}]

\* POST /api/chats: the senders and the targetUserId values
ChatCallers == {"U1", "U2"}
ChatTargets == {"U1", "U2", "U3", GhostId}

VARIABLES
    calls,              \* table calls
    call_participants,  \* table call_participants
    calendar_events,    \* calendar_events.call_id, per event id
    next_call_id,       \* next id the store generates for a calls row
    rooms,              \* room names allocated at the video provider
    profiles,           \* table profiles: the ids of its rows
    req,                \* per slot: the running request, its locals, its response
    dm_chats,           \* table chats: the rows POST /api/chats inserted
    dm_participants,    \* table chat_participants: the rows POST /api/chats inserted
    next_chat_id,       \* next id the store generates for a chats row
    chat_req,           \* per slot: the running POST /api/chats request
    channel,            \* useTypingIndicator: channelRef.current is set
    debounceTimer,      \* useTypingIndicator: ticks until the pending timeout runs, 0 for none
    clock,              \* the browser's time, in ticks
    broadcasts          \* what the typing channel was sent, in order

\* POST /api/chats
chatState == <<dm_chats, dm_participants, next_chat_id, chat_req>>
\* the typing indicator of one chat window
typingState == <<channel, debounceTimer, clock, broadcasts>>
\* what the call handlers never touch
elsewhere == <<chatState, typingState>>
\* what the call handlers work on
callState == <<calls, call_participants, calendar_events, next_call_id, rooms, profiles, req>>

vars == <<callState, chatState, typingState>>
\* the store
db == <<calls, call_participants, calendar_events, next_call_id, profiles>>

\* ------------------------------------------------------------ store helpers
Range(f) == {f[i] : i \in DOMAIN f}

\* .from('calls').select(...).eq('id', id): the matching rows (0 or 1)
CallRows(id) == {c \in calls : c.id = id}
CallById(id) == CHOOSE c \in calls : c.id = id

\* .from('call_participants') rows of one call
ParticipantRows(id) == {p \in call_participants : p.call_id = id}
\* ... .eq('call_id', id).is('left_at', null)
ActiveParticipants(id) == {p \in ParticipantRows(id) : p.left_at = NoTime}
\* rows of one (call, profile) pair
PairRows(id, uid) == {p \in ParticipantRows(id) : p.user_id = uid}

\* new Date().toISOString() written over a stored timestamp t (NoTime for
\* NULL): a later time, so a value that differs from the one it replaces
Now(t) == t + 1

\* a slot with no request
Idle ==
    [op |-> "idle", pc |-> "idle", caller |-> NULL, id |-> 0, action |-> NULL,
     ids |-> {}, chatId |-> NULL, eventId |-> NULL, room |-> NULL,
     isParticipant |-> TRUE, addError |-> FALSE, status |-> 0, body |-> NULL, autoEnded |-> FALSE,
     token |-> {}, roomDelete |-> FALSE, race |-> {}]

\* NextResponse.json(..., {status}): the handler returns; its request body is gone
Respond(r, code, text) ==
    [r EXCEPT !.pc = "done", !.status = code, !.body = text,
              !.ids = {}, !.chatId = NULL, !.eventId = NULL]

\* no POST /api/chats request, and the locals of one
ChatIdle ==
    [pc |-> "idle", caller |-> NULL, target |-> NULL, chatIds |-> {}, sharedChatIds |-> {},
     newChat |-> NULL, status |-> 0, body |-> NULL, id |-> NULL, isExisting |-> FALSE]

\* a slot takes a request when it runs none
Free(s) == req[s].pc \in {"idle", "done"}

Init ==
    /\ calls = {}
    /\ call_participants = {}
    /\ calendar_events = [e \in EventIds |-> 0]
    /\ next_call_id = 1
    /\ rooms = {}
    /\ profiles = Profiles
    /\ req = [s \in Slots |-> Idle]
    /\ dm_chats = {}
    /\ dm_participants = {}
    /\ next_chat_id = 1
    /\ chat_req = [s \in Slots |-> ChatIdle]
    /\ channel = FALSE
    /\ debounceTimer = 0
    /\ clock = 0
    /\ broadcasts = <<>>

\* variant: every credential carries the owner flag
MeetingToken_Owner(room, uid, owner) == [room_name |-> room, user_id |-> uid, is_owner |-> TRUE]

\* createMeetingToken({room_name, user_id, is_owner})
MeetingToken(room, uid, owner) == [room_name |-> room, user_id |-> uid, is_owner |-> owner]

\* ------------------------------------------------ POST /api/calls (CreateCall)
\* allParticipantIds = new Set([profileId, ...validParticipantIds])
AllParticipantIds(profileId, participantIds) == {profileId} \cup Range(participantIds)

\* variant: a failed room allocation is logged and the handler goes on
PostCreateRoom_Lenient(s, sc) ==
    /\ Free(s)
    /\ next_call_id + Cardinality({x \in Slots : req[x].pc = "insertCall"}) <= sc.calls
    /\ \E caller \in sc.creators, name \in sc.names, ok \in BOOLEAN :
          /\ rooms' = IF ok THEN rooms \cup {name} ELSE rooms
          /\ \E link \in sc.links,
                ids \in {AllParticipantIds(caller, plist) : plist \in sc.lists} :
                req' = [req EXCEPT ![s] =
                          [Idle EXCEPT !.op = "POST", !.caller = caller, !.ids = ids,
                                       !.chatId = link[1], !.eventId = link[2],
                                       !.room = name, !.pc = "insertCall"]]
    /\ UNCHANGED db
    /\ UNCHANGED elsewhere

\* the request arrives (no more CreateCalls than the scope has calls);
\* createDailyRoom(): a generated name, which the provider refuses when a room
\* of that name is allocated
PostCreateRoom(s, sc) ==
    /\ Free(s)
    /\ next_call_id + Cardinality({x \in Slots : req[x].pc = "insertCall"}) <= sc.calls
    /\ \E caller \in sc.creators, name \in sc.names, ok \in BOOLEAN :
          IF ok /\ name \notin rooms
          THEN /\ rooms' = rooms \cup {name}
               /\ \E link \in sc.links,
                     ids \in {AllParticipantIds(caller, plist) : plist \in sc.lists} :
                     req' = [req EXCEPT ![s] =
                               [Idle EXCEPT !.op = "POST", !.caller = caller, !.ids = ids,
                                            !.chatId = link[1], !.eventId = link[2],
                                            !.room = name, !.pc = "insertCall"]]
          ELSE /\ rooms' = rooms
               /\ req' = [req EXCEPT ![s] =
                            Respond([Idle EXCEPT !.op = "POST", !.caller = caller],
                                    500, "Failed to create video room")]
    /\ UNCHANGED db
    /\ UNCHANGED elsewhere

\* the row .from('calls').insert({...status: 'active'}) writes
NewCallRow(id, r) ==
    [id |-> id, daily_room_name |-> r.room, started_by |-> r.caller,
     calendar_event_id |-> r.eventId, chat_id |-> r.chatId,
     status |-> "active", ended_at |-> NoTime]

\* variant: daily_room_name without the UNIQUE constraint
RoomNameFree_Any(table, name) == TRUE

\* daily_room_name TEXT NOT NULL UNIQUE
RoomNameFree(table, name) == \A c \in table : c.daily_room_name # name

\* insert into calls; insertError -> 500
PostInsertCall(s) ==
    /\ req[s].op = "POST" /\ req[s].pc = "insertCall"
    /\ \E ok \in BOOLEAN :
          IF ok /\ RoomNameFree(calls, req[s].room)
          THEN /\ calls' = calls \cup {NewCallRow(next_call_id, req[s])}
               /\ next_call_id' = next_call_id + 1
               /\ req' = [req EXCEPT ![s].id = next_call_id, ![s].pc = "insertParticipants"]
          ELSE /\ UNCHANGED <<calls, next_call_id>>
               /\ req' = [req EXCEPT ![s] = Respond(@, 500, "Failed to create call")]
    /\ UNCHANGED <<call_participants, calendar_events, rooms, profiles>>
    /\ UNCHANGED elsewhere

\* the rows of the bulk insert: {call_id, user_id}, left_at defaults to NULL
NewParticipantRow(id, uid) == [call_id |-> id, user_id |-> uid, left_at |-> NoTime, dup |-> 0]

\* one INSERT statement: all rows or none. user_id REFERENCES profiles(id),
\* call_id REFERENCES calls(id), UNIQUE(call_id, user_id)
InsertParticipants(table, id, ids) ==
    IF /\ ids \subseteq profiles
       /\ CallRows(id) # {}
       /\ \A p \in table : ~(p.call_id = id /\ p.user_id \in ids)
    THEN table \cup {NewParticipantRow(id, u) : u \in ids}
    ELSE table

\* the creator's token, is_owner: true; the response {id, roomUrl, token}.
\* The record of a created call keeps allParticipantIds, the list it was
\* created for
PostToken(r, ok) ==
    IF ok
    THEN [Respond([r EXCEPT !.token = {MeetingToken(r.room, r.caller, TRUE)}], 200, "created")
             EXCEPT !.ids = r.ids]
    ELSE Respond(r, 500, "Failed to generate meeting token")

\* participantsError is logged; without a calendarEventId the token follows
PostInsertParticipants(s) ==
    /\ req[s].op = "POST" /\ req[s].pc = "insertParticipants"
    /\ \E ok \in BOOLEAN, tokenOk \in BOOLEAN :
          /\ call_participants' =
                IF ok THEN InsertParticipants(call_participants, req[s].id, req[s].ids)
                ELSE call_participants
          /\ req' = [req EXCEPT ![s] =
                       IF @.eventId # NULL THEN [@ EXCEPT !.pc = "linkEvent"]
                       ELSE PostToken(@, tokenOk)]
    /\ UNCHANGED <<calls, calendar_events, next_call_id, rooms, profiles>>
    /\ UNCHANGED elsewhere

\* calendar_events.update({call_id}).eq('id', calendarEventId); updateError is
\* logged; then the token
PostLinkEvent(s) ==
    /\ req[s].op = "POST" /\ req[s].pc = "linkEvent"
    /\ \E ok \in BOOLEAN, tokenOk \in BOOLEAN :
          /\ calendar_events' =
                IF ok /\ CallRows(req[s].id) # {}
                THEN [calendar_events EXCEPT ![req[s].eventId] = req[s].id]
                ELSE calendar_events
          /\ req' = [req EXCEPT ![s] = PostToken(@, tokenOk)]
    /\ UNCHANGED <<calls, call_participants, next_call_id, rooms, profiles>>
    /\ UNCHANGED elsewhere

\* ------------------------------------- GET /api/calls/[id] (GetCallForJoin)
\* const isStarter = call.started_by === profileId
IsStarter(call, profileId) == call.started_by = profileId

\* participantRows.some((p) => p.user_id === profileId)
IsParticipant(id, profileId) == PairRows(id, profileId) # {}

\* variant: only the chat lookup
HasLinkedAccess_ChatOnly(call, profileId) ==
    call.chat_id # NULL /\ <<call.chat_id, profileId>> \in chat_participants

\* the two linked-access lookups: chat_participants, then event_participants
HasLinkedAccess(call, profileId) ==
    \/ call.chat_id # NULL /\ <<call.chat_id, profileId>> \in chat_participants
    \/ call.calendar_event_id # NULL
         /\ <<call.calendar_event_id, profileId>> \in event_participants

\* if (!isStarter && !isParticipant && !hasLinkedAccess) -> 404
HasAccess(call, profileId) ==
    \/ IsStarter(call, profileId)
    \/ IsParticipant(call.id, profileId)
    \/ HasLinkedAccess(call, profileId)

\* variant: a caller without access is told so (403)
GetGate_Forbidden(id, profileId) ==
    IF CallRows(id) = {} THEN 404
    ELSE IF ~HasAccess(CallById(id), profileId) THEN 403
    ELSE IF CallById(id).status = "ended" THEN 410
    ELSE 0

\* variant: no status check
GetGate_NoEndedCheck(id, profileId) ==
    IF CallRows(id) = {} THEN 404
    ELSE IF ~HasAccess(CallById(id), profileId) THEN 404
    ELSE 0

\* the early responses of GET, in the handler's order; 0 means "go on"
GetGate(id, profileId) ==
    IF CallRows(id) = {} THEN 404
    ELSE IF ~HasAccess(CallById(id), profileId) THEN 404
    ELSE IF CallById(id).status = "ended" THEN 410
    ELSE 0

\* the {error} body of an early response
GateText(code) ==
    IF code = 404 THEN "Call not found"
    ELSE IF code = 410 THEN "This call has ended"
    ELSE IF code = 403 THEN "Only the call starter can do this"
    ELSE NULL

\* the request arrives: fetch the call with its participant rows, access and
\* status checks, createMeetingToken; a caller with a row is answered here
GetFetch(s, sc) ==
    /\ Free(s)
    /\ \E caller \in sc.callers, id \in sc.targets, ok \in BOOLEAN :
          LET r == [Idle EXCEPT !.op = "GET", !.caller = caller, !.id = id]
              code == GetGate(id, caller)
              call == CallById(id)
              token == {MeetingToken(call.daily_room_name, caller, IsStarter(call, caller))}
          IN  req' = [req EXCEPT ![s] =
                        IF code # 0 THEN Respond(r, code, GateText(code))
                        ELSE IF ~ok THEN Respond(r, 500, "Failed to generate meeting token")
                        ELSE IF IsParticipant(id, caller)
                        THEN Respond([r EXCEPT !.token = token,
                                               !.room = call.daily_room_name], 200, "joined")
                        ELSE [r EXCEPT !.token = token, !.room = call.daily_room_name,
                                       !.isParticipant = FALSE, !.pc = "upsert"]]
    /\ UNCHANGED <<db, rooms>>
    /\ UNCHANGED elsewhere

\* variant: the enrollment writes nothing
Upsert_Skip(table, id, uid) == table

\* variant: check-then-insert, a plain INSERT into a table without the
\* UNIQUE(call_id, user_id) constraint
Upsert_Insert(table, id, uid) ==
    table \cup {[NewParticipantRow(id, uid) EXCEPT
                   !.dup = Cardinality({p \in table : p.call_id = id /\ p.user_id = uid})]}

\* .upsert({call_id, user_id, joined_at}, {onConflict: 'call_id,user_id'}):
\* INSERT ... ON CONFLICT (call_id, user_id) DO UPDATE SET joined_at; a
\* conflicting row keeps its left_at
Upsert(table, id, uid) ==
    IF \E p \in table : p.call_id = id /\ p.user_id = uid
    THEN table
    ELSE table \cup {NewParticipantRow(id, uid)}

\* if (!isParticipant) upsert; it fails when the store rejects it or the call
\* row is gone (call_id REFERENCES calls(id)); addError is logged, the call,
\* token and roomUrl are returned either way
GetUpsert(s) ==
    /\ req[s].op = "GET" /\ req[s].pc = "upsert"
    /\ \E ok \in BOOLEAN :
          IF ok /\ CallRows(req[s].id) # {}
          THEN /\ call_participants' = Upsert(call_participants, req[s].id, req[s].caller)
               /\ req' = [req EXCEPT ![s] = Respond(@, 200, "joined")]
          ELSE /\ call_participants' = call_participants
               /\ req' = [req EXCEPT ![s] = Respond([@ EXCEPT !.addError = TRUE], 200, "joined")]
    /\ UNCHANGED <<calls, calendar_events, next_call_id, rooms, profiles>>
    /\ UNCHANGED elsewhere

\* --------------------------------- PATCH /api/calls/[id] (UpdateParticipation)
Actions == {"end", "leave"}

\* variant: no starter check
EndAllowed_Anyone(call, profileId) == TRUE

\* action === 'end': if (call.started_by !== profileId) -> 403
EndAllowed(call, profileId) == call.started_by = profileId

\* variant: no status check
PatchGate_NoEndedCheck(id, profileId, action) ==
    IF CallRows(id) = {} THEN 404
    ELSE IF action = "end" /\ ~EndAllowed(CallById(id), profileId) THEN 403
    ELSE 0

\* the early responses of PATCH, in the handler's order; 0 means "go on"
PatchGate(id, profileId, action) ==
    IF CallRows(id) = {} THEN 404
    ELSE IF CallById(id).status = "ended" THEN 410
    ELSE IF action = "end" /\ ~EndAllowed(CallById(id), profileId) THEN 403
    ELSE 0

\* History of a leave, no local of the handler: the slots whose leave of the
\* same call, by the other of the two profiles that hold the call's rows with
\* left_at null, has read the call and not yet written when this one reads it
RacingLeaves(s, id, profileId, action) ==
    {x \in Slots \ {s} :
        /\ action = "leave"
        /\ req[x].op = "PATCH" /\ req[x].action = "leave" /\ req[x].pc = "leaveUpdate"
        /\ req[x].id = id /\ req[x].caller # profileId
        /\ {p.user_id : p \in ActiveParticipants(id)} = {profileId, req[x].caller}}

\* the request arrives: fetch the call, ended check, starter check
PatchFetch(s, sc) ==
    /\ Free(s)
    /\ \E caller \in sc.callers, id \in sc.targets, action \in Actions :
          LET r == [Idle EXCEPT !.op = "PATCH", !.caller = caller, !.id = id,
                                !.action = action]
              code == PatchGate(id, caller, action)
          IN  req' = [req EXCEPT ![s] =
                        IF code # 0 THEN Respond(r, code, GateText(code))
                        ELSE [r EXCEPT !.room = CallById(id).daily_room_name,
                                       !.race = RacingLeaves(s, id, caller, action),
                                       !.pc = IF action = "end" THEN "endCall"
                                              ELSE "leaveUpdate"]]
    /\ UNCHANGED <<db, rooms>>
    /\ UNCHANGED elsewhere

\* variant: the update sets the status only
EndCallRows_StatusOnly(table, id) ==
    {IF c.id = id THEN [c EXCEPT !.status = "ended"] ELSE c : c \in table}

\* calls.update({status: 'ended', ended_at: now}).eq('id', id)
EndCallRows(table, id) ==
    {IF c.id = id THEN [c EXCEPT !.status = "ended", !.ended_at = Now(@)] ELSE c : c \in table}

\* call_participants.update({left_at: now}).eq('call_id', id).is('left_at', null)
MarkAllLeft(table, id) ==
    {IF p.call_id = id /\ p.left_at = NoTime THEN [p EXCEPT !.left_at = Now(@)] ELSE p :
        p \in table}

\* call_participants.update({left_at: now}).eq('call_id', id).eq('user_id', profileId)
MarkLeft(table, id, uid) ==
    {IF p.call_id = id /\ p.user_id = uid THEN [p EXCEPT !.left_at = Now(@)] ELSE p :
        p \in table}

\* deleteDailyRoom(name): DELETE /rooms/name; 404 is not an error
DeleteRoom(set, name) == set \ {name}

\* updateError -> 500
PatchEndCall(s) ==
    /\ req[s].op = "PATCH" /\ req[s].pc = "endCall"
    /\ \A c \in CallRows(req[s].id) : c.ended_at < MaxTime
    /\ \E ok \in BOOLEAN :
          IF ok
          THEN /\ calls' = EndCallRows(calls, req[s].id)
               /\ req' = [req EXCEPT ![s].pc = "endParticipants"]
          ELSE /\ calls' = calls
               /\ req' = [req EXCEPT ![s] = Respond(@, 500, "Failed to end call")]
    /\ UNCHANGED <<call_participants, calendar_events, next_call_id, rooms, profiles>>
    /\ UNCHANGED elsewhere

\* participantsError is logged, the handler goes on
PatchEndParticipants(s) ==
    /\ req[s].op = "PATCH" /\ req[s].pc = "endParticipants"
    /\ \E ok \in BOOLEAN :
          call_participants' =
             IF ok THEN MarkAllLeft(call_participants, req[s].id) ELSE call_participants
    /\ req' = [req EXCEPT ![s].pc = "endRoom"]
    /\ UNCHANGED <<calls, calendar_events, next_call_id, rooms, profiles>>
    /\ UNCHANGED elsewhere

\* variant: a failed room deletion is answered with an error
PatchEndRoom_Fatal(s) ==
    /\ req[s].op = "PATCH" /\ req[s].pc = "endRoom"
    /\ \E ok \in BOOLEAN :
          /\ rooms' = IF ok THEN DeleteRoom(rooms, req[s].room) ELSE rooms
          /\ req' = [req EXCEPT ![s] =
                       IF ok THEN Respond([@ EXCEPT !.roomDelete = TRUE], 200, "ended")
                       ELSE Respond([@ EXCEPT !.roomDelete = TRUE], 500, "Failed to end call")]
    /\ UNCHANGED db
    /\ UNCHANGED elsewhere

\* try { deleteDailyRoom } catch { log }; then {success, status: 'ended'}
PatchEndRoom(s) ==
    /\ req[s].op = "PATCH" /\ req[s].pc = "endRoom"
    /\ \E ok \in BOOLEAN :
          rooms' = IF ok THEN DeleteRoom(rooms, req[s].room) ELSE rooms
    /\ req' = [req EXCEPT ![s] = Respond([@ EXCEPT !.roomDelete = TRUE], 200, "ended")]
    /\ UNCHANGED db
    /\ UNCHANGED elsewhere

\* leaveError -> 500
PatchLeaveUpdate(s) ==
    /\ req[s].op = "PATCH" /\ req[s].pc = "leaveUpdate"
    /\ \A p \in PairRows(req[s].id, req[s].caller) : p.left_at < MaxTime
    /\ \E ok \in BOOLEAN :
          IF ok
          THEN /\ call_participants' = MarkLeft(call_participants, req[s].id, req[s].caller)
               /\ req' = [req EXCEPT ![s].pc = "leaveCheck"]
          ELSE /\ call_participants' = call_participants
               /\ req' = [req EXCEPT ![s] = Respond(@, 500, "Failed to leave call")]
    /\ UNCHANGED <<calls, calendar_events, next_call_id, rooms, profiles>>
    /\ UNCHANGED elsewhere

\* if (!activeParticipants || activeParticipants.length === 0)
NoneActive(id) == ActiveParticipants(id) = {}

\* select the rows with left_at null; with some, {success, status: 'left'}
PatchLeaveCheck(s) ==
    /\ req[s].op = "PATCH" /\ req[s].pc = "leaveCheck"
    /\ req' = [req EXCEPT ![s] =
                 IF NoneActive(req[s].id) THEN [@ EXCEPT !.pc = "autoEnd"]
                 ELSE Respond(@, 200, "left")]
    /\ UNCHANGED <<db, rooms>>
    /\ UNCHANGED elsewhere

\* endError is logged, the handler goes on
PatchAutoEnd(s) ==
    /\ req[s].op = "PATCH" /\ req[s].pc = "autoEnd"
    /\ \A c \in CallRows(req[s].id) : c.ended_at < MaxTime
    /\ \E ok \in BOOLEAN :
          calls' = IF ok THEN EndCallRows(calls, req[s].id) ELSE calls
    /\ req' = [req EXCEPT ![s].pc = "autoRoom"]
    /\ UNCHANGED <<call_participants, calendar_events, next_call_id, rooms, profiles>>
    /\ UNCHANGED elsewhere

\* try { deleteDailyRoom } catch { log }; then {status: 'ended', autoEnded: true}
PatchAutoRoom(s) ==
    /\ req[s].op = "PATCH" /\ req[s].pc = "autoRoom"
    /\ \E ok \in BOOLEAN :
          rooms' = IF ok THEN DeleteRoom(rooms, req[s].room) ELSE rooms
    /\ req' = [req EXCEPT ![s] =
                 Respond([@ EXCEPT !.roomDelete = TRUE, !.autoEnded = TRUE], 200, "ended")]
    /\ UNCHANGED db
    /\ UNCHANGED elsewhere

\* ------------------------------------- DELETE /api/calls/[id] (DeleteCall)
\* variant: no starter check
DeleteGate_Anyone(id, profileId) ==
    IF CallRows(id) = {} THEN 404 ELSE 0

\* the early responses of DELETE; 0 means "go on"
DeleteGate(id, profileId) ==
    IF CallRows(id) = {} THEN 404
    ELSE IF CallById(id).started_by # profileId THEN 403
    ELSE 0

\* the request arrives: fetch the call, starter check
DeleteFetch(s, sc) ==
    /\ Free(s)
    /\ \E caller \in sc.callers, id \in sc.targets :
          LET r == [Idle EXCEPT !.op = "DELETE", !.caller = caller, !.id = id]
              code == DeleteGate(id, caller)
          IN  req' = [req EXCEPT ![s] =
                        IF code # 0 THEN Respond(r, code, GateText(code))
                        ELSE [r EXCEPT !.room = CallById(id).daily_room_name,
                                       !.pc = "deleteRoom"]]
    /\ UNCHANGED <<db, rooms>>
    /\ UNCHANGED elsewhere

\* try { deleteDailyRoom } catch { log }
DeleteRoomStep(s) ==
    /\ req[s].op = "DELETE" /\ req[s].pc = "deleteRoom"
    /\ \E ok \in BOOLEAN :
          rooms' = IF ok THEN DeleteRoom(rooms, req[s].room) ELSE rooms
    /\ req' = [req EXCEPT ![s].roomDelete = TRUE, ![s].pc = "deleteCall"]
    /\ UNCHANGED db
    /\ UNCHANGED elsewhere

\* calls.delete().eq('id', id); call_participants.call_id ON DELETE CASCADE,
\* calendar_events.call_id ON DELETE SET NULL
DeleteCallStep(s) ==
    /\ req[s].op = "DELETE" /\ req[s].pc = "deleteCall"
    /\ \E ok \in BOOLEAN :
          IF ok
          THEN /\ calls' = {c \in calls : c.id # req[s].id}
               /\ call_participants' = {p \in call_participants : p.call_id # req[s].id}
               /\ calendar_events' =
                     [e \in EventIds |-> IF calendar_events[e] = req[s].id THEN 0
                                         ELSE calendar_events[e]]
               /\ req' = [req EXCEPT ![s] = Respond(@, 200, "deleted")]
          ELSE /\ UNCHANGED <<calls, call_participants, calendar_events>>
               /\ req' = [req EXCEPT ![s] = Respond(@, 500, "Failed to delete call")]
    /\ UNCHANGED <<next_call_id, rooms, profiles>>
    /\ UNCHANGED elsewhere

\* ------------------------------------------------- requests rejected early
\* const { userId } = await auth(); if (!userId) -> 401, in every handler
Unauthenticated(s) ==
    /\ Free(s)
    /\ \E op \in Ops :
          req' = [req EXCEPT ![s] = Respond([Idle EXCEPT !.op = op], 401, "Unauthorized")]
    /\ UNCHANGED <<db, rooms>>
    /\ UNCHANGED elsewhere

\* getOrCreateProfileId(userId): a user without a profiles row gets one
\* inserted, unless the store rejects the insert (then null)
GetOrCreateProfile(table, userId, ok) ==
    IF userId \notin table /\ ok THEN table \cup {userId} ELSE table

\* PATCH with a body whose action is neither 'end' nor 'leave': auth,
\* getOrCreateProfileId, then the action check -> 400
PatchInvalid(s, sc) ==
    /\ Free(s)
    /\ \E user \in sc.users, id \in sc.targets, ok \in BOOLEAN :
          LET r == [Idle EXCEPT !.op = "PATCH", !.caller = user, !.id = id,
                                !.action = "other"]
          IN  /\ profiles' = GetOrCreateProfile(profiles, user, ok)
              /\ req' = [req EXCEPT ![s] =
                            IF user \in profiles'
                            THEN Respond(r, 400, "Invalid action")
                            ELSE Respond(r, 500, "Failed to resolve user profile")]
    /\ UNCHANGED <<calls, call_participants, calendar_events, next_call_id, rooms>>
    /\ UNCHANGED elsewhere

\* the provider drops a room at its exp time (24 hours after creation)
RoomExpires ==
    /\ \E name \in rooms : rooms' = rooms \ {name}
    /\ UNCHANGED <<db, req>>
    /\ UNCHANGED elsewhere

\* ------------------------------------------- GET /api/calls/rooms (room token)
\* auth, getOrCreateProfileId, getDailyRoom(roomName) -> 404 when the provider
\* has no such room, createMeetingToken with is_owner false; the handler reads
\* neither calls nor call_participants
RoomsGet(s, sc) ==
    /\ Free(s)
    /\ \E caller \in sc.callers, roomName \in sc.names, ok \in BOOLEAN :
          LET r == [Idle EXCEPT !.op = "ROOMS", !.caller = caller]
          IN  req' = [req EXCEPT ![s] =
                        IF roomName \notin rooms THEN Respond(r, 404, "Room not found")
                        ELSE IF ~ok THEN Respond(r, 500, "Failed to generate meeting token")
                        ELSE Respond([r EXCEPT !.token = {MeetingToken(roomName, caller, FALSE)},
                                               !.room = roomName], 200, "token")]
    /\ UNCHANGED <<db, rooms>>
    /\ UNCHANGED elsewhere

\* ------------------------------------------------- POST /api/chats (DM chat)
\* table chats: the group chat of the seed data and the rows inserted here
ChatRows == {[id |-> c, is_group |-> TRUE] : c \in ChatIds} \cup dm_chats

\* table chat_participants, as (chat_id, user_id) pairs
ChatParticipantRows == chat_participants \cup dm_participants

\* the id the store gives the n-th chats row inserted
NewChatId(n) == ToString(n)

\* NextResponse.json(..., {status}) of POST /api/chats
ChatRespond(r, code, text) == [r EXCEPT !.pc = "done", !.status = code, !.body = text]

ChatFree(s) == chat_req[s].pc \in {"idle", "done"}

\* the request arrives: the caller's profile, the self check, the target's profile
ChatStart(s) ==
    /\ ChatFree(s)
    /\ \E caller \in ChatCallers, target \in ChatTargets :
          LET r == [ChatIdle EXCEPT !.caller = caller, !.target = target]
          IN  chat_req' = [chat_req EXCEPT ![s] =
                  IF caller \notin profiles THEN ChatRespond(r, 404, "Profile not found")
                  ELSE IF caller = target
                  THEN ChatRespond(r, 400, "Cannot create DM with yourself")
                  ELSE IF target \notin profiles
                  THEN ChatRespond(r, 404, "Target user not found")
                  ELSE [r EXCEPT !.pc = "userChats"]]
    /\ UNCHANGED <<dm_chats, dm_participants, next_chat_id>>
    /\ UNCHANGED <<callState, typingState>>

\* select chat_id from chat_participants where user_id = the caller
ChatUserChats(s) ==
    /\ chat_req[s].pc = "userChats"
    /\ LET r == chat_req[s]
           chatIds == {p[1] : p \in {q \in ChatParticipantRows : q[2] = r.caller}}
       IN  chat_req' = [chat_req EXCEPT ![s] =
               [r EXCEPT !.chatIds = chatIds,
                         !.pc = IF chatIds = {} THEN "insert" ELSE "shared"]]
    /\ UNCHANGED <<dm_chats, dm_participants, next_chat_id>>
    /\ UNCHANGED <<callState, typingState>>

\* select chat_id from chat_participants where user_id = the target and
\* chat_id in chatIds
ChatShared(s) ==
    /\ chat_req[s].pc = "shared"
    /\ LET r == chat_req[s]
           shared == {p[1] : p \in {q \in ChatParticipantRows :
                                       q[2] = r.target /\ q[1] \in r.chatIds}}
       IN  chat_req' = [chat_req EXCEPT ![s] =
               [r EXCEPT !.sharedChatIds = shared,
                         !.pc = IF shared = {} THEN "insert" ELSE "existing"]]
    /\ UNCHANGED <<dm_chats, dm_participants, next_chat_id>>
    /\ UNCHANGED <<callState, typingState>>

\* select from chats where id in sharedChatIds and is_group = false, limit 1:
\* a row found is the response, isExisting true
ChatExisting(s) ==
    /\ chat_req[s].pc = "existing"
    /\ LET r == chat_req[s]
           found == {c \in ChatRows : c.id \in r.sharedChatIds /\ ~c.is_group}
       IN  IF found = {}
           THEN chat_req' = [chat_req EXCEPT ![s] = [r EXCEPT !.pc = "insert"]]
           ELSE \E c \in found :
                   chat_req' = [chat_req EXCEPT ![s] =
                       ChatRespond([r EXCEPT !.id = c.id, !.isExisting = TRUE], 200, "chat")]
    /\ UNCHANGED <<dm_chats, dm_participants, next_chat_id>>
    /\ UNCHANGED <<callState, typingState>>

\* insert into chats {name: null, is_group: false}
ChatInsert(s) ==
    /\ chat_req[s].pc = "insert"
    /\ next_chat_id <= MaxChats
    /\ \E ok \in BOOLEAN :
          LET r == chat_req[s]
          IN  IF ok
              THEN /\ dm_chats' = dm_chats \cup {[id |-> NewChatId(next_chat_id), is_group |-> FALSE]}
                   /\ next_chat_id' = next_chat_id + 1
                   /\ chat_req' = [chat_req EXCEPT ![s] =
                         [r EXCEPT !.newChat = NewChatId(next_chat_id), !.pc = "participants"]]
              ELSE /\ chat_req' = [chat_req EXCEPT ![s] =
                         ChatRespond(r, 500, "Failed to create chat")]
                   /\ UNCHANGED <<dm_chats, next_chat_id>>
    /\ UNCHANGED dm_participants
    /\ UNCHANGED <<callState, typingState>>

\* insert the two chat_participants rows
ChatInsertParticipants(s) ==
    /\ chat_req[s].pc = "participants"
    /\ \E ok \in BOOLEAN :
          LET r == chat_req[s]
          IN  IF ok
              THEN /\ dm_participants' = dm_participants \cup
                          {<<r.newChat, r.caller>>, <<r.newChat, r.target>>}
                   /\ chat_req' = [chat_req EXCEPT ![s] =
                         ChatRespond([r EXCEPT !.id = r.newChat], 200, "chat")]
              ELSE /\ chat_req' = [chat_req EXCEPT ![s] = [r EXCEPT !.pc = "cleanup"]]
                   /\ UNCHANGED dm_participants
    /\ UNCHANGED <<dm_chats, next_chat_id>>
    /\ UNCHANGED <<callState, typingState>>

\* the participants were rejected: delete the chat just created, answer 500
ChatCleanup(s) ==
    /\ chat_req[s].pc = "cleanup"
    /\ dm_chats' = {c \in dm_chats : c.id # chat_req[s].newChat}
    /\ chat_req' = [chat_req EXCEPT ![s] =
          ChatRespond(chat_req[s], 500, "Failed to create chat participants")]
    /\ UNCHANGED <<dm_participants, next_chat_id>>
    /\ UNCHANGED <<callState, typingState>>

\* ------------------------------------------------ useTypingIndicator (hook)
\* the subscribe effect: channelRef.current = channel
Subscribe ==
    /\ ~channel
    /\ channel' = TRUE
    /\ UNCHANGED <<debounceTimer, clock, broadcasts>>
    /\ UNCHANGED <<callState, chatState>>

\* the effect's cleanup: clearTimeout, removeChannel, channelRef.current = null
Unsubscribe ==
    /\ channel
    /\ channel' = FALSE
    /\ debounceTimer' = 0
    /\ UNCHANGED <<clock, broadcasts>>
    /\ UNCHANGED <<callState, chatState>>

\* channel.send({type: "broadcast", event, ...}), stamped with the time of sending
Send(log, event, at) == Append(log, [event |-> event, at |-> at])

\* sendTyping(): without a channel it returns; else it clears the pending
\* timeout, sends 'typing' and arms a timeout of debounceMs
SendTyping ==
    /\ Len(broadcasts) < MaxBroadcasts
    /\ IF ~channel
       THEN UNCHANGED <<debounceTimer, broadcasts>>
       ELSE /\ broadcasts' = Send(broadcasts, "typing", clock)
            /\ debounceTimer' = DebounceTicks
    /\ UNCHANGED <<channel, clock>>
    /\ UNCHANGED <<callState, chatState>>

\* clearTyping(): without a channel it returns; else it clears the pending
\* timeout and sends 'stop_typing'
ClearTyping ==
    /\ Len(broadcasts) < MaxBroadcasts
    /\ IF ~channel
       THEN UNCHANGED <<debounceTimer, broadcasts>>
       ELSE /\ broadcasts' = Send(broadcasts, "stop_typing", clock)
            /\ debounceTimer' = 0
    /\ UNCHANGED <<channel, clock>>
    /\ UNCHANGED <<callState, chatState>>

\* a tick of the browser's clock; a timeout that comes due runs its callback,
\* debounceTimerRef.current = null
Tick ==
    /\ clock < MaxClock
    /\ clock' = clock + 1
    /\ debounceTimer' = IF debounceTimer > 0 THEN debounceTimer - 1 ELSE 0
    /\ UNCHANGED <<channel, broadcasts>>
    /\ UNCHANGED <<callState, chatState>>

\* ------------------------------------------------------------ specification
\* one step of one handler
Step(s, sc) ==
    \/ PostCreateRoom(s, sc) \/ PostInsertCall(s) \/ PostInsertParticipants(s)
    \/ PostLinkEvent(s)
    \/ GetFetch(s, sc) \/ GetUpsert(s)
    \/ PatchFetch(s, sc) \/ PatchEndCall(s) \/ PatchEndParticipants(s) \/ PatchEndRoom(s)
    \/ PatchLeaveUpdate(s) \/ PatchLeaveCheck(s) \/ PatchAutoEnd(s) \/ PatchAutoRoom(s)
    \/ DeleteFetch(s, sc) \/ DeleteRoomStep(s) \/ DeleteCallStep(s)

Next == \E s \in SeqScope.slots : Step(s, SeqScope)

\* requests one after another
Spec == Init /\ [][Next]_vars

NextRace == \E s \in RaceScope.slots : Step(s, RaceScope)

\* two requests at a time
SpecRace == Init /\ [][NextRace]_vars

NextEdge ==
    \/ \E s \in EdgeScope.slots :
          Step(s, EdgeScope) \/ Unauthenticated(s) \/ PatchInvalid(s, EdgeScope)
    \/ RoomExpires

\* requests one after another, rejected ones and room expiry included
SpecEdge == Init /\ [][NextEdge]_vars

NextRooms == \E s \in RoomsScope.slots : Step(s, RoomsScope) \/ RoomsGet(s, RoomsScope)

\* requests one after another, GET /api/calls/rooms among them
SpecRooms == Init /\ [][NextRooms]_vars

NextChats ==
    \E s \in Slots :
       \/ ChatStart(s) \/ ChatUserChats(s) \/ ChatShared(s) \/ ChatExisting(s)
       \/ ChatInsert(s) \/ ChatInsertParticipants(s) \/ ChatCleanup(s)

\* two POST /api/chats requests at a time
SpecChats == Init /\ [][NextChats]_vars

NextTyping == Subscribe \/ Unsubscribe \/ SendTyping \/ ClearTyping \/ Tick

\* one chat window: the user types, sends, the window opens and closes
SpecTyping == Init /\ [][NextTyping]_vars

\* ------------------------------------------------------------------ claims
\* Vocabulary of the claims, written over the tables and the responses.

\* no handler is between two of its steps
Quiet == \A s \in Slots : Free(s)

\* this step is slot s receiving a request of kind op
Starts(s, op) == Free(s) /\ req'[s] # req[s] /\ req'[s].op = op

\* this step is a step of the request slot s is running at pc
StepsAt(s, op, pc) == req[s].op = op /\ req[s].pc = pc /\ req'[s] # req[s]

\* caller u is the starter, has a row, is in the linked chat or in the linked event
Related(c, u) ==
    \/ c.started_by = u
    \/ \E p \in call_participants : p.call_id = c.id /\ p.user_id = u
    \/ c.chat_id # NULL /\ <<c.chat_id, u>> \in chat_participants
    \/ c.calendar_event_id # NULL /\ <<c.calendar_event_id, u>> \in event_participants

\* what a client sees of a response
View(r) == [status |-> r.status, body |-> r.body, token |-> r.token]

NotFoundView == [status |-> 404, body |-> "Call not found", token |-> {}]
GoneView(text) == [status |-> 410, body |-> text, token |-> {}]

\* C1 (auto-end invariant): whenever no operation is mid-flight, every call
\* none of whose participant rows has left_at null (a call without rows
\* included) has status ended.
C1_AutoEndInvariant ==
    Quiet => \A c \in calls :
                (\A p \in call_participants : p.call_id = c.id => p.left_at # NoTime)
                   => c.status = "ended"

\* C2 (idempotent leave): when a profile's leave has answered 'left' and the
\* same profile sends leave again for the same call, the second request is
\* not answered with an error; and a leave by a profile whose row of the call
\* is already marked left writes nothing: no calls row and no
\* call_participants row changes, the caller's left_at included.
C2_IdempotentLeave ==
    [][\A s \in Slots :
          /\ (/\ Starts(s, "PATCH") /\ req'[s].action = "leave"
              /\ req[s].op = "PATCH" /\ req[s].action = "leave"
              /\ req[s].status = 200 /\ req[s].body = "left"
              /\ req'[s].caller = req[s].caller /\ req'[s].id = req[s].id)
             => req'[s].status = 0 /\ UNCHANGED <<calls, call_participants>>
          /\ (/\ StepsAt(s, "PATCH", "leaveUpdate")
              /\ \E p \in call_participants :
                    /\ p.call_id = req[s].id /\ p.user_id = req[s].caller
                    /\ p.left_at # NoTime)
             => UNCHANGED <<calls, call_participants>>]_vars

\* C3 (terminal-state immutability): an UpdateParticipation request, end or
\* leave, by any caller, that arrives when the call is ended is answered 410
\* at once and leaves calls and call_participants as they were.
C3_TerminalImmutable ==
    [][\A s \in Slots :
          (/\ Starts(s, "PATCH")
           /\ \E c \in calls : c.id = req'[s].id /\ c.status = "ended")
          => /\ req'[s].pc = "done"
             /\ View(req'[s]) = GoneView("This call has ended")
             /\ ~req'[s].roomDelete
             /\ UNCHANGED <<calls, call_participants, rooms, profiles>>]_vars

C3_Witness ==
    \E s \in Slots, c \in calls :
       /\ req[s].op = "PATCH" /\ req[s].pc = "done" /\ req[s].status = 410
       /\ req[s].action = "leave" /\ c.id = req[s].id /\ c.status = "ended"
       /\ c.ended_at # NoTime

\* C4 (authorization conflation): a GetCallForJoin by a caller with none of
\* the four relations to an existing call, active or ended, gets the very
\* response a GetCallForJoin for an id of no call gets, and neither writes.
C4_Conflation ==
    [][\A s \in Slots :
          (/\ Starts(s, "GET")
           /\ \A c \in calls : c.id = req'[s].id => ~Related(c, req'[s].caller))
          => /\ req'[s].pc = "done"
             /\ View(req'[s]) = NotFoundView
             /\ UNCHANGED <<db, rooms>>]_vars

C4_Witness ==
    \E s \in Slots, c \in calls :
       /\ req[s].op = "GET" /\ req[s].pc = "done" /\ View(req[s]) = NotFoundView
       /\ c.id = req[s].id /\ c.status = "ended" /\ ~Related(c, req[s].caller)

\* C5 as stated: on an active call GetCallForJoin returns a join credential
\* exactly when the caller has one of the four relations, and NotFound
\* otherwise.
C5_AccessIffRelated ==
    [][\A s \in Slots : \A c \in calls :
          (Starts(s, "GET") /\ c.id = req'[s].id /\ c.status = "active")
          => IF Related(c, req'[s].caller)
             THEN req'[s].token # {} /\ req'[s].status \in {0, 200}
             ELSE View(req'[s]) = NotFoundView]_vars

\* C5 amended: on an active call a caller with none of the four relations
\* gets NotFound; a caller with one gets a join credential for the call's
\* room, unless the credential provider fails: then the response is 500,
\* without credential and without any write.
C5_AccessOrUpstreamFailure ==
    [][\A s \in Slots : \A c \in calls :
          (Starts(s, "GET") /\ c.id = req'[s].id /\ c.status = "active")
          => IF Related(c, req'[s].caller)
             THEN \/ /\ req'[s].status \in {0, 200}
                     /\ \E k \in req'[s].token :
                           k.room_name = c.daily_room_name /\ k.user_id = req'[s].caller
                  \/ /\ req'[s].pc = "done" /\ req'[s].status = 500 /\ req'[s].token = {}
                     /\ UNCHANGED <<db, rooms>>
             ELSE View(req'[s]) = NotFoundView /\ req'[s].pc = "done"]_vars

\* a caller reaches an active call through the linked event alone and gets a token
C5_Witness ==
    \E s \in Slots, c \in calls :
       /\ req[s].op = "GET" /\ req[s].status \in {0, 200} /\ req[s].token # {}
       /\ c.id = req[s].id /\ c.status = "active"
       /\ c.started_by # req[s].caller /\ c.chat_id = NULL
       /\ <<c.calendar_event_id, req[s].caller>> \in event_participants
       /\ req[s].pc = "upsert"

\* C6: GetCallForJoin by a caller with one of the four relations on an ended
\* call returns 410 Gone, which differs from NotFound, issues no credential
\* and writes no call_participants row.
C6_EndedIsGone ==
    [][\A s \in Slots : \A c \in calls :
          (/\ Starts(s, "GET") /\ c.id = req'[s].id /\ c.status = "ended"
           /\ Related(c, req'[s].caller))
          => /\ req'[s].pc = "done"
             /\ View(req'[s]) = GoneView("This call has ended")
             /\ View(req'[s]) # NotFoundView
             /\ UNCHANGED <<db, rooms>>]_vars

C6_Witness ==
    \E s \in Slots, c \in calls :
       /\ req[s].op = "GET" /\ req[s].pc = "done" /\ req[s].status = 410
       /\ c.id = req[s].id /\ c.status = "ended" /\ c.started_by # req[s].caller
       /\ Related(c, req[s].caller)

C8_OneRowPerPair ==
    \A p \in call_participants, q \in call_participants :
       (p.call_id = q.call_id /\ p.user_id = q.user_id) => p = q

\* two joins of the same profile, both without a row at their fetch, both done
C8_Witness ==
    \E s \in Slots, x \in Slots :
       /\ s # x
       /\ req[s].op = "GET" /\ req[x].op = "GET"
       /\ req[s].pc = "done" /\ req[x].pc = "done"
       /\ req[s].status = 200 /\ req[x].status = 200
       /\ ~req[s].isParticipant /\ ~req[x].isParticipant
       /\ ~req[s].addError /\ ~req[x].addError
       /\ req[s].caller = req[x].caller /\ req[s].id = req[x].id
       /\ Cardinality(PairRows(req[s].id, req[s].caller)) = 1

\* C9: end on an active call by a caller who is not the starter is answered
\* 403 at once; calls, call_participants and the provider's rooms stay
\* as they were and no room deletion is attempted.
C9_EndForbidden ==
    [][\A s \in Slots : \A c \in calls :
          (/\ Starts(s, "PATCH") /\ req'[s].action = "end"
           /\ c.id = req'[s].id /\ c.status = "active" /\ c.started_by # req'[s].caller)
          => /\ req'[s].pc = "done" /\ req'[s].status = 403 /\ req'[s].token = {}
             /\ ~req'[s].roomDelete
             /\ UNCHANGED <<db, rooms>>]_vars

C9_Witness ==
    \E s \in Slots, c \in calls :
       /\ req[s].op = "PATCH" /\ req[s].action = "end" /\ req[s].pc = "done"
       /\ req[s].status = 403
       /\ c.id = req[s].id /\ c.status = "active" /\ c.started_by # req[s].caller
       /\ ActiveParticipants(c.id) # {}

\* C10: when a leave has answered (requests running one after another): the
\* plain 'left' outcome goes with a call that is still active and has a row
\* with left_at null; the autoEnded outcome goes with no such row, a call
\* that is ended with ended_at set, and an attempted room deletion.
C10_LeaveOutcome ==
    \A s \in Slots : \A c \in calls :
       (/\ req[s].op = "PATCH" /\ req[s].action = "leave" /\ req[s].pc = "done"
        /\ req[s].status = 200 /\ c.id = req[s].id)
       => IF req[s].autoEnded
          THEN /\ req[s].body = "ended" /\ req[s].roomDelete
               /\ ActiveParticipants(c.id) = {}
               /\ c.status = "ended" /\ c.ended_at # NoTime
          ELSE /\ req[s].body = "left" /\ ~req[s].roomDelete
               /\ ActiveParticipants(c.id) # {}
               /\ c.status = "active"

\* C11 (effect of end): the starter's end of an active call, when the calls
\* update is not answered with an error, stores the call as ended with
\* ended_at set and leaves every other calls row alone; its participants
\* update gives a left_at to every row of the call whose left_at was null and
\* leaves every other row, of this call or of another, as it was.
C11_EndEffect ==
    [][\A s \in Slots :
          /\ (StepsAt(s, "PATCH", "endCall") /\ req'[s].status # 500)
             => /\ \A c \in calls :
                      IF c.id = req[s].id
                      THEN \E d \in calls' :
                              d.id = c.id /\ d.status = "ended" /\ d.ended_at # NoTime
                      ELSE c \in calls'
                /\ call_participants' = call_participants
          /\ StepsAt(s, "PATCH", "endParticipants")
             => /\ calls' = calls
                /\ Cardinality(call_participants') = Cardinality(call_participants)
                /\ \A p \in call_participants :
                      IF p.call_id = req[s].id /\ p.left_at = NoTime
                      THEN \E q \in call_participants' :
                              /\ q.call_id = p.call_id /\ q.user_id = p.user_id
                              /\ q.left_at # NoTime
                      ELSE p \in call_participants']_vars

\* C12: in every reachable state every calls row has ended_at non-null
\* exactly when its status is ended.
C12_EndedAtIffEnded ==
    \A c \in calls : (c.ended_at # NoTime) <=> (c.status = "ended")

\* a call that a last leave ended
C12_Witness ==
    \E s \in Slots, c \in calls :
       /\ req[s].op = "PATCH" /\ req[s].pc = "done" /\ req[s].autoEnded
       /\ c.id = req[s].id /\ c.status = "ended" /\ c.ended_at # NoTime

\* C13: when CreateCall has answered success, the caller has a row for the
\* new call whatever the participant list was; and when every listed id is a
\* profile, the call's rows are exactly the caller and the listed ids, and the
\* call is active.
C13_CreatorEnrolled ==
    \A s \in Slots :
       (req[s].op = "POST" /\ req[s].pc = "done" /\ req[s].status = 200)
       => /\ \E p \in call_participants :
                p.call_id = req[s].id /\ p.user_id = req[s].caller
          /\ req[s].ids \subseteq Profiles
             => /\ {p.user_id : p \in ParticipantRows(req[s].id)} = req[s].ids
                /\ \E c \in calls : c.id = req[s].id /\ c.status = "active"

\* C14: after a successful CreateCall whose bulk insert left the call without
\* rows, a join of that call by a profile of the call's participant list, the
\* caller or a listed id, is not refused.
C14_JoinAfterFailedEnrollment ==
    [][\A s \in Slots :
          (/\ Starts(s, "GET")
           /\ req[s].op = "POST" /\ req[s].pc = "done" /\ req[s].status = 200
           /\ req'[s].id = req[s].id
           /\ req'[s].caller \in req[s].ids \cap Profiles
           /\ \A p \in call_participants : p.call_id # req[s].id)
          => req'[s].status \notin {404, 410}]_vars

\* C15: a CreateCall whose room allocation fails is answered with the creation
\* error at once and writes nothing to the store; and every calls row that
\* is inserted carries the name of a room that is allocated, the one its
\* request allocated.
C15_NoRowWithoutRoom ==
    [][/\ \A s \in Slots :
             (Starts(s, "POST") /\ rooms' = rooms)
             => /\ req'[s].pc = "done" /\ req'[s].status = 500 /\ req'[s].token = {}
                /\ UNCHANGED db
       /\ \A c \in calls' :
             (\A d \in calls : d.id # c.id)
             => /\ c.daily_room_name \in rooms
                /\ \E s \in Slots :
                      /\ req[s].op = "POST" /\ req[s].pc = "insertCall"
                      /\ req[s].room = c.daily_room_name]_vars

\* a CreateCall refused for its room, the store still empty
C15_Witness ==
    \E s \in Slots :
       /\ req[s].op = "POST" /\ req[s].pc = "done" /\ req[s].status = 500
       /\ req[s].body = "Failed to create video room"
       /\ calls = {} /\ call_participants = {} /\ rooms = {}
       /\ \A e \in EventIds : calendar_events[e] = 0

\* C16 (room-name uniqueness): no two calls rows carry the same room name, and
\* a CreateCall never gets a room whose name is that of a room still allocated.
C16_RoomNamesUnique ==
    [][/\ \A c \in calls', d \in calls' : c.daily_room_name = d.daily_room_name => c = d
       /\ \A s \in Slots :
             (Starts(s, "POST") /\ req'[s].pc # "done") => req'[s].room \notin rooms]_vars

\* two calls, while the room of the first is still allocated
C16_Witness ==
    \E c \in calls, d \in calls :
       /\ c.id < d.id /\ c.daily_room_name # d.daily_room_name
       /\ c.daily_room_name \in rooms /\ d.daily_room_name \in rooms
       /\ \E s \in Slots : req[s].op = "POST" /\ req[s].status = 200 /\ req[s].id = d.id

\* C17: a step that turns a call from active to ended is the end update or the
\* auto-end update of an UpdateParticipation request, which then goes on to the
\* room deletion; the room deletion step answers success with status ended and
\* leaves the calls rows as stored, whether or not the room was deleted.
C17_RoomReleasedOnEnd ==
    [][\A s \in Slots :
          /\ (/\ req'[s] # req[s]
              /\ \E c \in calls, d \in calls' :
                    c.id = d.id /\ c.status = "active" /\ d.status = "ended")
             => /\ req[s].op = "PATCH"
                /\ req'[s].pc \in {"endParticipants", "autoRoom"}
          /\ StepsAt(s, "PATCH", "endParticipants") => req'[s].pc = "endRoom"
          /\ (StepsAt(s, "PATCH", "endRoom") \/ StepsAt(s, "PATCH", "autoRoom"))
             => /\ req'[s].roomDelete
                /\ req'[s].pc = "done" /\ req'[s].status = 200 /\ req'[s].body = "ended"
                /\ calls' = calls
                /\ rooms' \subseteq rooms]_vars

\* the starter's end has answered, the call is ended, its room is still there
C17_Witness ==
    \E s \in Slots, c \in calls :
       /\ req[s].op = "PATCH" /\ req[s].action = "end" /\ req[s].pc = "done"
       /\ req[s].status = 200 /\ req[s].roomDelete
       /\ c.id = req[s].id /\ c.status = "ended"
       /\ c.daily_room_name \in rooms

\* C18: DeleteCall by a caller who is not the starter is answered 403 and
\* touches neither the store nor the rooms; the starter's DeleteCall goes on to
\* delete the calls row whether or not the room was released, and when the
\* delete has succeeded neither the calls row nor any call_participants row of
\* that call remains, the rows of other calls being as before.
C18_DeleteStarterOnly ==
    [][\A s \in Slots :
          /\ \A c \in calls :
                (/\ Starts(s, "DELETE")
                 /\ c.id = req'[s].id /\ c.started_by # req'[s].caller)
                => /\ req'[s].pc = "done" /\ req'[s].status = 403
                   /\ ~req'[s].roomDelete
                   /\ UNCHANGED <<db, rooms>>
          /\ StepsAt(s, "DELETE", "deleteRoom")
             => req'[s].pc = "deleteCall" /\ req'[s].roomDelete /\ UNCHANGED db
          /\ (StepsAt(s, "DELETE", "deleteCall") /\ req'[s].status = 200)
             => /\ calls' = {c \in calls : c.id # req[s].id}
                /\ call_participants' = {p \in call_participants : p.call_id # req[s].id}
                /\ \A c \in calls : c.id = req[s].id => c.started_by = req[s].caller]_vars

\* the starter's delete has succeeded although the room release failed
C18_Witness ==
    \E s \in Slots :
       /\ req[s].op = "DELETE" /\ req[s].pc = "done" /\ req[s].status = 200
       /\ req[s].room \in rooms
       /\ \A c \in calls : c.id # req[s].id
       /\ \A p \in call_participants : p.call_id # req[s].id

\* C19 (fail fast): a request answered 401 (no caller identity) or 400 (invalid
\* input) has written nothing to the store: no profiles, calls or
\* call_participants row is created or changed.
C19_RejectedWritesNothing ==
    [][\A s \in Slots :
          (Free(s) /\ req'[s] # req[s] /\ req'[s].status \in {400, 401})
          => UNCHANGED <<profiles, calls, call_participants, calendar_events>>]_vars

\* C20 (racing last leaves): when the two profiles that hold the call's only
\* rows with left_at null each sent a leave, the second reading the call
\* before the first has written, and both leaves have answered success, then
\* no row of the call has left_at null, the call is ended and at least one of
\* the two responses reports autoEnded.
C20_RacingLastLeaves ==
    \A s \in Slots, x \in Slots, c \in calls :
       (/\ x \in req[s].race
        /\ req[s].op = "PATCH" /\ req[s].action = "leave" /\ req[s].pc = "done"
        /\ req[x].op = "PATCH" /\ req[x].action = "leave" /\ req[x].pc = "done"
        /\ req[s].status = 200 /\ req[x].status = 200
        /\ req[s].id = c.id /\ req[x].id = c.id
        /\ req[s].caller # req[x].caller)
       => /\ ActiveParticipants(c.id) = {}
          /\ c.status = "ended" /\ c.ended_at # NoTime
          /\ req[s].autoEnded \/ req[x].autoEnded

\* C21 (ending an ended call is a no-op): a step of an UpdateParticipation
\* request taken when its call is already stored as ended changes neither
\* that call's row (ended_at included) nor any left_at the call's rows
\* already carry; so of two overlapping ending requests the one that writes
\* second leaves what the first wrote.
C21_SecondWriterNoOp ==
    [][\A s \in Slots : \A c \in calls :
          (/\ req[s].op = "PATCH" /\ req[s].pc # "done" /\ req'[s] # req[s]
           /\ c.id = req[s].id /\ c.status = "ended")
          => /\ c \in calls'
             /\ \A p \in call_participants :
                   (p.call_id = c.id /\ p.left_at # NoTime) => p \in call_participants']_vars

\* C22 (credential scope and owner flag): the credential a GetCallForJoin
\* issues names the call's room and the caller, with is_owner true exactly
\* when the caller is the call's starter; the credential a CreateCall issues
\* names the new call's room and its starter, with is_owner true.
C22_CredentialScope ==
    [][\A s \in Slots :
          /\ (/\ req'[s].op = "GET" /\ req'[s] # req[s]
              /\ req'[s].token # {} /\ req'[s].pc = "done")
             => \E c \in calls' :
                   /\ c.id = req'[s].id
                   /\ req'[s].token =
                         {[room_name |-> c.daily_room_name, user_id |-> req'[s].caller,
                           is_owner |-> (c.started_by = req'[s].caller)]}
          /\ (/\ req[s].op = "POST" /\ req'[s].op = "POST"
              /\ req[s].token = {} /\ req'[s].token # {})
             => \E c \in calls' :
                   /\ c.id = req'[s].id
                   /\ req'[s].token =
                         {[room_name |-> c.daily_room_name, user_id |-> c.started_by,
                           is_owner |-> TRUE]}]_vars

\* an invited profile, not the starter, has joined and holds a credential
\* without the owner flag, while the starter holds one with it
C22_Witness ==
    \E s \in Slots, c \in calls, p \in call_participants :
       /\ req[s].op = "GET" /\ req[s].pc = "done" /\ req[s].status = 200
       /\ c.id = req[s].id /\ c.started_by # req[s].caller
       /\ p.call_id = c.id /\ p.user_id = req[s].caller
       /\ \E t \in req[s].token :
             ~t.is_owner /\ t.room_name = c.daily_room_name /\ t.user_id = req[s].caller

\* C23 (typing debounce): a sendTyping() call made while the timeout armed by
\* an earlier call is still pending sends no 'typing' broadcast, so the
\* channel is sent at most one 'typing' event per debounceMs window.
C23_Debounce ==
    [][debounceTimer > 0
         => ~(/\ Len(broadcasts') = Len(broadcasts) + 1
              /\ broadcasts'[Len(broadcasts')].event = "typing")]_vars

\* C24 (create-or-get): at any time at most one non-group chat has exactly a
\* given pair of profiles as its participants, whether the requests for the
\* pair came one after another or overlapped, from one side or from both.
C24_OneChatPerPair ==
    \A a \in Profiles, b \in Profiles :
       a # b =>
          Cardinality({c \in ChatRows :
                          /\ ~c.is_group
                          /\ {q[2] : q \in {x \in ChatParticipantRows : x[1] = c.id}} = {a, b}})
             <= 1

\* C25 (no active participant in an ended call): whenever no operation is
\* mid-flight, no row of an ended call has left_at null, enrolling
\* GetCallForJoin requests that overlap an end or an auto-end included.
C25_EndedHasNoActiveRow ==
    Quiet => \A c \in calls : \A p \in call_participants :
                (c.status = "ended" /\ p.call_id = c.id) => p.left_at # NoTime

\* C26 (join enrolls): when a GetCallForJoin is answered 200 and its store
\* write, if it made one, was accepted, the caller has a row of the call with
\* left_at null, a caller who joined, left and rejoins included.
C26_JoinedHasActiveRow ==
    [][\A s \in Slots :
          (/\ req'[s].op = "GET" /\ req'[s] # req[s]
           /\ req'[s].pc = "done" /\ req'[s].status = 200 /\ ~req'[s].addError)
          => \E p \in call_participants' :
                /\ p.call_id = req'[s].id /\ p.user_id = req'[s].caller
                /\ p.left_at = NoTime]_vars

\* C27 (CreateCall is all-or-nothing): when a CreateCall has answered with an
\* error, no calls row and no call_participants row that invocation inserted
\* is stored.
C27_CreateAllOrNothing ==
    \A s \in Slots :
       (req[s].op = "POST" /\ req[s].pc = "done" /\ req[s].status >= 400)
       => /\ \A c \in calls : c.id # req[s].id
          /\ \A p \in call_participants : p.call_id # req[s].id

\* C28 (non-participant leave is inert): no step of a leave whose caller has
\* no row of the call changes calls, call_participants or the provider's
\* rooms, and none attempts a room deletion, whatever the state of the call.
C28_LeaveWithoutRowInert ==
    [][\A s \in Slots :
          LET r == IF Free(s) THEN req'[s] ELSE req[s]
          IN  (/\ req'[s] # req[s]
               /\ r.op = "PATCH" /\ r.action = "leave"
               /\ \A p \in call_participants :
                     ~(p.call_id = r.id /\ p.user_id = r.caller))
              => /\ UNCHANGED <<calls, call_participants, rooms>>
                 /\ ~req'[s].roomDelete]_vars

\* C29 (credential issuance gated by access): whichever handler issues it, a
\* credential for the room of a stored call goes only to a profile that at
\* that moment is the call's starter, has a row of it or is in its linked
\* chat or event, and only while the call is active.
C29_CredentialGated ==
    [][\A s \in Slots :
          (req'[s].token # {} /\ req'[s].token # req[s].token)
          => \A t \in req'[s].token : \A c \in calls :
                c.daily_room_name = t.room_name
                   => c.status = "active" /\ Related(c, t.user_id)]_vars

\* C30 (ended response implies ended call): when an UpdateParticipation
\* answers with status 'ended', with autoEnded or without, the calls row is
\* at that moment stored as ended with ended_at set.
C30_EndedResponseTruthful ==
    [][\A s \in Slots :
          (/\ req[s].op = "PATCH" /\ req[s].pc # "done" /\ req'[s].pc = "done"
           /\ req'[s].status = 200 /\ req'[s].body = "ended")
          => \E c \in calls' :
                c.id = req'[s].id /\ c.status = "ended" /\ c.ended_at # NoTime]_vars
====
